---- MODULE Spec2Model ----
(***************************************************************************)
(* Model of truboxing-ppv (src/app.py, src/timezone_utils.py): the token   *)
(* store, the email index and the device ledger kept in SQLite, and the    *)
(* Flask request handlers that read and write them.  Requests run in       *)
(* parallel (threaded workers); every SQL statement is atomic, and a       *)
(* handler that issues several statements is one action per statement      *)
(* (Python's sqlite3 opens a transaction only before INSERT/DELETE, so the *)
(* SELECTs of a handler are not in one transaction with its INSERT).       *)
(* Time is counted in hours.                                               *)
(***************************************************************************)
EXTENDS Integers, Sequences, FiniteSets, Bags, TLC

\* ---------------------------------------------------------------- bounds
MaxIssue == 3
MaxRequests == 4
MaxAdmin == 3
MaxTicks == 1
MaxLife == 3

\* ------------------------------------------------------ program constants
DeviceLimit == 2
ExpiryDays == 7
HoursPerDay == 24
MALAYSIA_TZ == 8

NoneVal == "<None>"
PLACEHOLDER == "abc123"
SECRET == "s3cret"

\* ------------------------------------------------------------ input sets
TokenIds == {"t1", "t2"}
Emails == {"a@x", "b@x"}
VProcs == {"v1", "v2", "v3"}
VProcs2 == {"v1", "v2"}
AProcs == {"a1"}
CProcs == {"c1", "c2"}
TokenArgs == TokenIds \cup {""}
StatusVals == {NoneVal, "", "0", "1"}
StatusIdVals == {NoneVal, "1"}
OrderIds == {NoneVal, "TRX-", "a@x", "TRX-a@x", "TRX-b@x"}
XRealIps == {NoneVal, "1.1"}
XForwardedFors == {NoneVal, "3.3"}
RemoteAddrs == {"2.2"}
JsonVals == {NoneVal, ""}
UserAgents == {NoneVal, "ua1", "ua2"}
ScreenSizes == {NoneVal, "800x600"}
Timezones == {NoneVal, "", "UTC"}
AdminHeaders == {"", "wrong", SECRET}
MuxOutcomes == {"created", "api_error"}
BrevoOutcomes == {"sent", "api_error", "error"}

\* the deployments: ADMIN_TOKEN, FIXED_PLAYBACK_ID, MUX and Brevo credentials
Envs ==
  { [ADMIN_TOKEN |-> SECRET, FIXED_PLAYBACK_ID |-> "", MUX |-> TRUE, BREVO |-> TRUE],
    [ADMIN_TOKEN |-> "", FIXED_PLAYBACK_ID |-> "fixedpb", MUX |-> FALSE, BREVO |-> FALSE],
    [ADMIN_TOKEN |-> SECRET, FIXED_PLAYBACK_ID |-> "", MUX |-> FALSE, BREVO |-> FALSE] }

VARIABLES
  env,            \* the environment the process was started with
  clock,          \* the wall clock, an instant in hours
  nticks,         \* clock advances so far
  nreq,           \* requests received so far
  tokens,         \* table tokens: token -> row
  email_tokens,   \* table email_tokens: email -> token
  device_access,  \* table device_access: bag of rows
  creq,           \* payment_callback requests in flight
  vreq,           \* POST /verify requests in flight
  areq,           \* POST /admin/add-device requests in flight
  last            \* the last single-statement request and the line it returned at

vars == <<env, clock, nticks, nreq, tokens, email_tokens, device_access,
          creq, vreq, areq, last>>

\* ------------------------------------------------------- timezone_utils.py
\* an aware datetime is [instant, tz]; its text form is [wall, off]
get_now == [instant |-> clock, tz |-> MALAYSIA_TZ]

isoformat(dt) == [wall |-> dt.instant + dt.tz, off |-> dt.tz]

isoparse(s) == [instant |-> s.wall - s.off, tz |-> s.off]

astimezone(dt, tz) == [instant |-> dt.instant, tz |-> tz]

timedelta(days) == days * HoursPerDay

generate_expiry(days) ==
  isoformat([instant |-> get_now.instant + timedelta(days), tz |-> get_now.tz])

parse_expiry(expiry_str) == astimezone(isoparse(expiry_str), MALAYSIA_TZ)

\* comparison of aware datetimes compares instants
After(a, b) == a.instant > b.instant

\* ------------------------------------------------------------- utilities
\* Python's `x or y` on optional strings
Or(x, y) == IF x = NoneVal \/ x = "" THEN y ELSE x

safe_get(v, default) == Or(v, default)

sha256(raw) == "sha256(" \o raw \o ")"

\* the fingerprint without the time zone
DeviceHashNoTz(user_ip, ua, ss, tz) ==
  sha256(user_ip \o "|" \o ua \o "|" \o ss)

DeviceHash(user_ip, ua, ss, tz) ==
  sha256(user_ip \o "|" \o ua \o "|" \o ss \o "|" \o tz)

UserIp(xreal, xfwd, remote) == Or(xreal, Or(xfwd, Or(remote, "")))

Hashes ==
  { DeviceHash(UserIp(xr, xf, ra), safe_get(u, ""), safe_get(NoneVal, ""), safe_get(NoneVal, "")) :
      xr \in XRealIps, xf \in XForwardedFors, ra \in RemoteAddrs, u \in JsonVals }

DeviceArgs == {""} \cup Hashes

\* SELECT COUNT(DISTINCT device_hash) FROM device_access WHERE token = ?
CountIn(rows, token) ==
  Cardinality({ r.device_hash : r \in { x \in BagToSet(rows) : x.token = token } })

CountDevices(token) == CountIn(device_access, token)

\* SELECT 1 FROM device_access WHERE token = ? AND device_hash = ?
AdmittedIn(rows, token, device_hash) ==
  \E r \in BagToSet(rows) : r.token = token /\ r.device_hash = device_hash

IsAdmitted(token, device_hash) == AdmittedIn(device_access, token, device_hash)

\* a plain INSERT on a table without the UNIQUE constraint
InsertAlways(rows, row) == rows (+) SetToBag({row})

\* INSERT OR REPLACE under UNIQUE(token, device_hash)
InsertOrReplace(rows, row) ==
  [r \in { x \in BagToSet(rows) : ~(x.token = row.token /\ x.device_hash = row.device_hash) } |-> rows[r]]
    (+) SetToBag({row})

\* INSERT OR IGNORE under UNIQUE(token, device_hash)
InsertOrIgnore(rows, row) ==
  IF \E r \in BagToSet(rows) : r.token = row.token /\ r.device_hash = row.device_hash
  THEN rows
  ELSE rows (+) SetToBag({row})

\* a request in flight is at the statement it executes next; a finished one is
\* at the line of app.py that returned
Idle == [pc |-> "idle"]

Returns == {"L250", "L258", "L260", "L324", "L330", "L339", "L383"}

Free(r) == r.pc = "idle" \/ r.pc \in Returns

\* the HTTP status of each return
Code(pc) ==
  CASE pc \in {"L260", "L324", "L339", "L383", "L298", "L362", "L349", "L276"} -> 200
    [] pc \in {"L229"} -> 302
    [] pc \in {"L230"} -> 200
    [] pc \in {"L242", "L285", "L290", "L357", "L370"} -> 400
    [] pc \in {"L111", "L114", "L270", "L273", "L295", "L299", "L317", "L319", "L330", "L377"} -> 403
    [] pc \in {"L250", "L258"} -> 500

\* a request answered by its first statement: what it was and the line it returned at
Answer(op, ret, token, id) == [op |-> op, seq |-> nreq + 1, ret |-> ret, token |-> token, id |-> id]

\* ------------------------------------------------------------------ Init
Init ==
  /\ env \in Envs
  /\ clock = 0
  /\ nticks = 0
  /\ nreq = 0
  /\ tokens = << >>
  /\ email_tokens = << >>
  /\ device_access = EmptyBag
  /\ creq = [p \in CProcs |-> Idle]
  /\ vreq = [p \in VProcs |-> Idle]
  /\ areq = [p \in AProcs |-> Idle]
  /\ last = [op |-> "none", seq |-> 0]

\* d hours pass between requests
Tick(d) ==
  /\ nticks < MaxTicks
  /\ clock' = clock + d
  /\ nticks' = nticks + 1
  /\ UNCHANGED <<env, nreq, tokens, email_tokens, device_access, creq, vreq, areq, last>>

\* --------------------------------------------------------- payment_callback
\* lines 141-164; `outcome` is what the MUX API does when it is called
create_mux_stream_if_needed(outcome) ==
  IF env.FIXED_PLAYBACK_ID # ""
  THEN [playback_id |-> env.FIXED_PLAYBACK_ID, stream_key |-> NoneVal, mux |-> "none"]
  ELSE IF ~env.MUX
  THEN [playback_id |-> PLACEHOLDER, stream_key |-> NoneVal, mux |-> "none"]
  ELSE IF outcome = "created"
  THEN [playback_id |-> "pb1", stream_key |-> "sk1", mux |-> "created"]
  ELSE [playback_id |-> PLACEHOLDER, stream_key |-> NoneVal, mux |-> "api_error"]

StartsWithTRX(order_id) == Len(order_id) >= 4 /\ SubSeq(order_id, 1, 4) = "TRX-"

\* line 238
EmailOf(order_id) ==
  IF order_id # NoneVal /\ order_id # "" /\ StartsWithTRX(order_id)
  THEN SubSeq(order_id, 5, Len(order_id))
  ELSE NoneVal

\* line 236
StatusOf(status, status_id) == Or(status, status_id)

\* the validation without `or not email`
BadCallbackStatusOnly(status, status_id, order_id) ==
  StatusOf(status, status_id) # "1"

\* line 240
BadCallback(status, status_id, order_id) ==
  StatusOf(status, status_id) # "1" \/ EmailOf(order_id) = NoneVal \/ EmailOf(order_id) = ""

\* lines 235-246: parse, validate, mint the id and the expiry, ask for a stream;
\* `uuid` is what uuid4().hex[:8] yields
PaymentCallbackBegin(p, status, status_id, order_id) ==
  /\ Free(creq[p])
  /\ nreq' = nreq + 1
  /\ IF BadCallback(status, status_id, order_id)
     THEN /\ last' = Answer("callback", "L242", "", "")
          /\ UNCHANGED creq
     ELSE /\ \E uuid \in TokenIds, outcome \in MuxOutcomes :
               LET stream == create_mux_stream_if_needed(outcome) IN
               creq' = [creq EXCEPT ![p] =
                 [pc |-> "insert", email |-> EmailOf(order_id), token |-> uuid,
                  issued |-> get_now.instant, expires_at |-> generate_expiry(ExpiryDays),
                  playback_id |-> stream.playback_id, stream_key |-> stream.stream_key,
                  mux |-> stream.mux]]
          /\ UNCHANGED last
  /\ UNCHANGED <<env, clock, nticks, tokens, email_tokens, device_access, vreq, areq>>

\* lines 116-139; `outcome` is what the Brevo API does when it is called: it
\* sends, raises its ApiException (caught at line 138), or raises another
\* exception, which line 138 does not catch
send_watch_link(outcome) ==
  IF ~env.BREVO THEN "skipped" ELSE outcome

\* INSERT INTO tokens: the row, when the PRIMARY KEY is free
InsertToken(rows, r) ==
  rows @@ (r.token :> [email |-> r.email, expires_at |-> r.expires_at,
                       playback_id |-> r.playback_id, stream_key |-> r.stream_key])

\* INSERT OR IGNORE INTO email_tokens: the first token of the email stays
KeepEmailToken(rows, email, token) == rows @@ (email :> token)

\* INSERT OR REPLACE INTO email_tokens
ReplaceEmailToken(rows, email, token) == (email :> token) @@ rows

\* the transaction written with INSERT OR REPLACE INTO tokens
PaymentCallbackInsertOrReplace(p, outcome) ==
  LET r == creq[p] IN
  /\ r.pc = "insert"
  /\ tokens' = (r.token :> [email |-> r.email, expires_at |-> r.expires_at,
                            playback_id |-> r.playback_id, stream_key |-> r.stream_key]) @@ tokens
  /\ email_tokens' = ReplaceEmailToken(email_tokens, r.email, r.token)
  /\ creq' = [creq EXCEPT ![p] =
       [pc |-> IF send_watch_link(outcome) = "error" THEN "L258" ELSE "L260",
        email |-> r.email, token |-> r.token,
        mux |-> r.mux, mail |-> send_watch_link(outcome)]]
  /\ UNCHANGED <<env, clock, nticks, nreq, device_access, vreq, areq, last>>

\* the two INSERTs without a transaction: a PRIMARY KEY violation on the first
\* is swallowed and the second still runs
PaymentCallbackInsertNoRollback(p, outcome) ==
  LET r == creq[p] IN
  /\ r.pc = "insert"
  /\ tokens' = IF r.token \in DOMAIN tokens THEN tokens ELSE InsertToken(tokens, r)
  /\ email_tokens' = ReplaceEmailToken(email_tokens, r.email, r.token)
  /\ creq' = [creq EXCEPT ![p] =
       [pc |-> IF send_watch_link(outcome) = "error" THEN "L258" ELSE "L260",
        email |-> r.email, token |-> r.token,
        mux |-> r.mux, mail |-> send_watch_link(outcome)]]
  /\ UNCHANGED <<env, clock, nticks, nreq, device_access, vreq, areq, last>>

\* lines 248-260: one transaction inserts the token and replaces the index entry;
\* a PRIMARY KEY violation rolls it back and the request fails; an exception that
\* send_watch_link lets through fails the request after the commit
PaymentCallbackInsert(p, outcome) ==
  LET r == creq[p] IN
  /\ r.pc = "insert"
  /\ IF r.token \in DOMAIN tokens
     THEN /\ UNCHANGED <<tokens, email_tokens>>
          /\ creq' = [creq EXCEPT ![p] = [pc |-> "L250", email |-> r.email, token |-> r.token,
                                         mux |-> r.mux, mail |-> "none"]]
     ELSE /\ tokens' = InsertToken(tokens, r)
          /\ email_tokens' = ReplaceEmailToken(email_tokens, r.email, r.token)
          /\ creq' = [creq EXCEPT ![p] =
               [pc |-> IF send_watch_link(outcome) = "error" THEN "L258" ELSE "L260",
                email |-> r.email, token |-> r.token,
                mux |-> r.mux, mail |-> send_watch_link(outcome)]]
  /\ UNCHANGED <<env, clock, nticks, nreq, device_access, vreq, areq, last>>

\* ------------------------------------------------------------ single-statement requests
\* GET /generate-token?email= (lines 219-230)
generate_token_redirect(email) ==
  /\ nreq' = nreq + 1
  /\ last' = IF email # "" /\ email \in DOMAIN email_tokens /\ email_tokens[email] # ""
             THEN Answer("resume", "L229", email_tokens[email], email)
             ELSE Answer("resume", "L230", "", email)
  /\ UNCHANGED <<env, clock, nticks, tokens, email_tokens, device_access, creq, vreq, areq>>

\* a watch page that deletes the token it finds expired
watch_purge(token) ==
  /\ nreq' = nreq + 1
  /\ last' = IF token \notin DOMAIN tokens
             THEN Answer("watch", "L270", token, "")
             ELSE IF After(get_now, parse_expiry(tokens[token].expires_at))
             THEN Answer("watch", "L273", token, "")
             ELSE Answer("watch", "L276", token, Or(tokens[token].playback_id, PLACEHOLDER))
  /\ tokens' = IF token \in DOMAIN tokens /\ After(get_now, parse_expiry(tokens[token].expires_at))
               THEN [t \in DOMAIN tokens \ {token} |-> tokens[t]]
               ELSE tokens
  /\ UNCHANGED <<env, clock, nticks, email_tokens, device_access, creq, vreq, areq>>

\* GET /watch/<token> (lines 263-276)
watch(token) ==
  /\ nreq' = nreq + 1
  /\ last' = IF token \notin DOMAIN tokens
             THEN Answer("watch", "L270", token, "")
             ELSE IF After(get_now, parse_expiry(tokens[token].expires_at))
             THEN Answer("watch", "L273", token, "")
             ELSE Answer("watch", "L276", token, Or(tokens[token].playback_id, PLACEHOLDER))
  /\ UNCHANGED <<env, clock, nticks, tokens, email_tokens, device_access, creq, vreq, areq>>

\* the recheck with a device query that leaves out `AND device_hash = ?`
VerifyGetAnyDevice(token, identity) ==
  IF token = "" THEN "L285"
  ELSE IF identity = "" THEN "L290"
  ELSE IF token \notin DOMAIN tokens THEN "L295"
  ELSE IF CountDevices(token) > 0 THEN "L298"
  ELSE "L299"

\* GET /verify?v=&id= (lines 283-299): the line it returns at
VerifyGet(token, identity) ==
  IF token = "" THEN "L285"
  ELSE IF identity = "" THEN "L290"
  ELSE IF token \notin DOMAIN tokens THEN "L295"
  ELSE IF IsAdmitted(token, identity) THEN "L298"
  ELSE "L299"

verify_get(token, identity) ==
  /\ nreq' = nreq + 1
  /\ last' = Answer("recheck", VerifyGet(token, identity), token, identity)
  /\ UNCHANGED <<env, clock, nticks, tokens, email_tokens, device_access, creq, vreq, areq>>

\* ------------------------------------------------------------ POST /verify
Returned(r, line) == [pc |-> line, token |-> r.token, device_hash |-> r.device_hash]

\* the token checks with the expiry test written `>=`
VerifyPostBeginAtExpiry(token) ==
  IF token = "" THEN "L285"
  ELSE IF token \notin DOMAIN tokens THEN "L317"
  ELSE IF get_now.instant >= parse_expiry(tokens[token].expires_at).instant THEN "L319"
  ELSE "exists"

\* lines 283-285 and 311-319: the line it returns at, or "exists" when it goes on
VerifyPostBegin(token) ==
  IF token = "" THEN "L285"
  ELSE IF token \notin DOMAIN tokens THEN "L317"
  ELSE IF After(get_now, parse_expiry(tokens[token].expires_at)) THEN "L319"
  ELSE "exists"

\* lines 283-319: token parameter, fingerprint, then the token row and its expiry
verify_post_begin(p, token, xreal, xfwd, remote, userAgent, screenSize, timezone) ==
  LET ua == safe_get(userAgent, "")
      ss == safe_get(screenSize, "")
      tz == safe_get(timezone, "")
      user_ip == UserIp(xreal, xfwd, remote)
      device_hash == DeviceHash(user_ip, ua, ss, tz)
      line == VerifyPostBegin(token)
  IN /\ Free(vreq[p])
     /\ nreq' = nreq + 1
     /\ IF line # "exists"
        THEN /\ last' = Answer("register", line, token, IF line = "L285" THEN "" ELSE device_hash)
             /\ UNCHANGED vreq
        ELSE /\ vreq' = [vreq EXCEPT ![p] =
                  [pc |-> "exists", token |-> token, device_hash |-> device_hash, ip |-> user_ip,
                   user_agent |-> ua, screen_size |-> ss, timezone |-> tz, now |-> isoformat(get_now)]]
             /\ UNCHANGED last
     /\ UNCHANGED <<env, clock, nticks, tokens, email_tokens, device_access, creq, areq>>

\* lines 322-324: same device already recorded -> ok
verify_post_exists(p) ==
  LET r == vreq[p] IN
  /\ r.pc = "exists"
  /\ vreq' = [vreq EXCEPT ![p] =
       IF IsAdmitted(r.token, r.device_hash) THEN Returned(r, "L324") ELSE [r EXCEPT !.pc = "count"]]
  /\ UNCHANGED <<env, clock, nticks, nreq, tokens, email_tokens, device_access, creq, areq, last>>

\* lines 327-330: count distinct devices
verify_post_count(p) ==
  LET r == vreq[p]
      used == CountDevices(r.token)
  IN /\ r.pc = "count"
     /\ vreq' = [vreq EXCEPT ![p] =
          IF used >= DeviceLimit THEN Returned(r, "L330") ELSE [r EXCEPT !.pc = "insert"]]
     /\ UNCHANGED <<env, clock, nticks, nreq, tokens, email_tokens, device_access, creq, areq, last>>

\* lines 333-339: insert the new device, commit, answer
verify_post_insert(p) ==
  LET r == vreq[p] IN
  /\ r.pc = "insert"
  /\ device_access' = InsertOrIgnore(device_access,
       [token |-> r.token, device_hash |-> r.device_hash, ip |-> r.ip, user_agent |-> r.user_agent,
        screen_size |-> r.screen_size, timezone |-> r.timezone, timestamp |-> r.now])
  /\ vreq' = [vreq EXCEPT ![p] = Returned(r, "L339")]
  /\ UNCHANGED <<env, clock, nticks, nreq, tokens, email_tokens, creq, areq, last>>

\* the JSON answer of POST /verify: the identity handed back on success
Identity(r) == IF r.pc \in {"L324", "L339"} THEN r.device_hash ELSE ""

\* ------------------------------------------------------------------ admin
\* the guard without the check that ADMIN_TOKEN is set
admin_guard_open(hdr) ==
  IF hdr # env.ADMIN_TOKEN THEN "L114" ELSE "pass"

\* lines 109-114: the line it aborts at, or "pass"
admin_guard(hdr) ==
  IF env.ADMIN_TOKEN = "" THEN "L111"
  ELSE IF hdr # env.ADMIN_TOKEN THEN "L114"
  ELSE "pass"

\* GET /admin/logs (lines 342-349)
admin_logs(hdr) ==
  /\ nreq' = nreq + 1
  /\ last' = Answer("logs", IF admin_guard(hdr) = "pass" THEN "L349" ELSE admin_guard(hdr), "", "")
  /\ UNCHANGED <<env, clock, nticks, tokens, email_tokens, device_access, creq, vreq, areq>>

\* a DELETE that leaves out `AND device_hash = ?`
DeleteAllOfToken(rows, token, device) ==
  [r \in { x \in BagToSet(rows) : x.token # token } |-> rows[r]]

\* DELETE FROM device_access WHERE token = ? AND device_hash = ?
Delete(rows, token, device) ==
  [r \in { x \in BagToSet(rows) : ~(x.token = token /\ x.device_hash = device) } |-> rows[r]]

\* lines 353-362: the line it returns at
AdminKick(hdr, token, device) ==
  IF admin_guard(hdr) # "pass" THEN admin_guard(hdr)
  ELSE IF token = "" \/ device = "" THEN "L357"
  ELSE "L362"

\* POST /admin/kick (lines 351-362)
admin_kick(hdr, token, device) ==
  /\ nreq' = nreq + 1
  /\ last' = Answer("kick", AdminKick(hdr, token, device), token, device)
  /\ device_access' = IF AdminKick(hdr, token, device) = "L362"
                      THEN Delete(device_access, token, device)
                      ELSE device_access
  /\ UNCHANGED <<env, clock, nticks, tokens, email_tokens, creq, vreq, areq>>

\* lines 366-377: the line it returns at, or "insert" when it goes on
AdminAddDeviceBegin(hdr, token, device) ==
  IF admin_guard(hdr) # "pass" THEN admin_guard(hdr)
  ELSE IF token = "" \/ device = "" THEN "L370"
  ELSE IF CountDevices(token) >= DeviceLimit THEN "L377"
  ELSE "insert"

\* POST /admin/add-device, lines 366-377: guard, parameters, count
admin_add_device_begin(p, hdr, token, device) ==
  LET line == AdminAddDeviceBegin(hdr, token, device) IN
  /\ Free(areq[p])
  /\ nreq' = nreq + 1
  /\ IF line # "insert"
     THEN /\ last' = Answer("add", line, token, device)
          /\ UNCHANGED areq
     ELSE /\ areq' = [areq EXCEPT ![p] =
               [pc |-> "insert", token |-> token, device |-> device, now |-> isoformat(get_now)]]
          /\ UNCHANGED last
  /\ UNCHANGED <<env, clock, nticks, tokens, email_tokens, device_access, creq, vreq>>

\* lines 378-383: insert, commit, answer
admin_add_device_insert(p) ==
  LET r == areq[p] IN
  /\ r.pc = "insert"
  /\ device_access' = InsertOrIgnore(device_access,
       [token |-> r.token, device_hash |-> r.device, ip |-> "admin", user_agent |-> "",
        screen_size |-> "", timezone |-> "", timestamp |-> r.now])
  /\ areq' = [areq EXCEPT ![p] = [pc |-> "L383", token |-> r.token, device |-> r.device]]
  /\ UNCHANGED <<env, clock, nticks, nreq, tokens, email_tokens, creq, vreq, last>>

\* ------------------------------------------------------------ specifications
\* issuance: callbacks, the watch page and the resume redirect, from an empty
\* database; between requests the clock may pass the expiry of the tokens issued so far
NextIssue ==
  \/ Tick(timedelta(ExpiryDays) + 1)
  \/ /\ nreq < MaxIssue
     /\ \E s \in StatusVals, si \in StatusIdVals, o \in OrderIds :
          PaymentCallbackBegin("c1", s, si, o)
  \/ \E b \in BrevoOutcomes : PaymentCallbackInsert("c1", b)
  \/ /\ nreq < MaxIssue
     /\ \E e \in Emails \cup {""} : generate_token_redirect(e)
  \/ /\ nreq < MaxIssue
     /\ \E t \in TokenIds : watch(t)

SpecIssue == Init /\ [][NextIssue]_vars

\* the database a week after one purchase: init_db keeps the rows of earlier runs
Issued(e) ==
  ("t1" :> [email |-> "a@x",
            expires_at |-> [wall |-> MALAYSIA_TZ, off |-> MALAYSIA_TZ],
            playback_id |-> IF e.FIXED_PLAYBACK_ID # "" THEN e.FIXED_PLAYBACK_ID
                            ELSE IF e.MUX THEN "pb1" ELSE PLACEHOLDER,
            stream_key |-> IF e.MUX /\ e.FIXED_PLAYBACK_ID = "" THEN "sk1" ELSE NoneVal])

InitAdmin ==
  /\ env \in Envs
  /\ clock = 0
  /\ nticks = 0
  /\ nreq = 0
  /\ tokens = Issued(env)
  /\ email_tokens = ("a@x" :> "t1")
  /\ device_access = EmptyBag
  /\ creq = [p \in CProcs |-> Idle]
  /\ vreq = [p \in VProcs |-> Idle]
  /\ areq = [p \in AProcs |-> Idle]
  /\ last = [op |-> "none", seq |-> 0]

InitAdmit == InitAdmin /\ env.ADMIN_TOKEN # "" /\ env.MUX

\* admission: recheck, register-or-verify and the admin kick on an issued
\* token, in its last valid hour
NextAdmit ==
  \/ Tick(1)
  \/ /\ nreq < MaxRequests
     /\ \E t \in TokenArgs, i \in DeviceArgs : verify_get(t, i)
  \/ /\ nreq < MaxRequests
     /\ \E p \in VProcs2, t \in TokenIds, xr \in XRealIps, xf \in XForwardedFors, ra \in RemoteAddrs, u \in JsonVals :
          verify_post_begin(p, t, xr, xf, ra, u, NoneVal, NoneVal)
  \/ \E p \in VProcs2 : verify_post_exists(p)
  \/ \E p \in VProcs2 : verify_post_count(p)
  \/ \E p \in VProcs2 : verify_post_insert(p)
  \/ /\ nreq < MaxRequests
     /\ \E t \in TokenIds, d \in Hashes : admin_kick(SECRET, t, d)

SpecAdmit == InitAdmit /\ [][NextAdmit]_vars

\* the admin endpoints under every credential, beside one registering client
NextAdmin ==
  \/ /\ nreq < MaxAdmin
     /\ \E t \in TokenArgs, xr \in XRealIps, u \in JsonVals :
          verify_post_begin("v1", t, xr, NoneVal, "2.2", u, NoneVal, NoneVal)
  \/ verify_post_exists("v1")
  \/ verify_post_count("v1")
  \/ verify_post_insert("v1")
  \/ /\ nreq < MaxAdmin
     /\ \E h \in AdminHeaders : admin_logs(h)
  \/ /\ nreq < MaxAdmin
     /\ \E h \in AdminHeaders, t \in TokenArgs, d \in DeviceArgs : admin_kick(h, t, d)
  \/ /\ nreq < MaxAdmin
     /\ \E h \in AdminHeaders, t \in TokenArgs, d \in DeviceArgs : admin_add_device_begin("a1", h, t, d)
  \/ admin_add_device_insert("a1")

SpecAdmin == InitAdmin /\ [][NextAdmin]_vars

\* N clients with pairwise distinct fingerprints register in parallel on a fresh token
Fingerprint(xr, xf, ra, u) ==
  DeviceHash(UserIp(xr, xf, ra), safe_get(u, ""), safe_get(NoneVal, ""), safe_get(NoneVal, ""))

NextParallel ==
  \/ \E p \in VProcs, xr \in XRealIps, xf \in XForwardedFors, ra \in RemoteAddrs, u \in JsonVals :
       /\ vreq[p].pc = "idle"
       /\ \A q \in VProcs : vreq[q].pc # "idle" => vreq[q].device_hash # Fingerprint(xr, xf, ra, u)
       /\ verify_post_begin(p, "t1", xr, xf, ra, u, NoneVal, NoneVal)
  \/ \E p \in VProcs : verify_post_exists(p)
  \/ \E p \in VProcs : verify_post_count(p)
  \/ \E p \in VProcs : verify_post_insert(p)

SpecParallel == InitAdmit /\ [][NextParallel]_vars

\* the whole life of a token: purchases, then watch, resume, recheck,
\* register-or-verify and the admin operations, on a database that starts empty,
\* in the deployment with admin access and without MUX and Brevo credentials
LifeHashes ==
  { DeviceHash(UserIp(xr, NoneVal, "2.2"), "", "", "") : xr \in XRealIps }

InitLife == Init /\ env.ADMIN_TOKEN # "" /\ ~env.MUX /\ ~env.BREVO

NextLife ==
  \/ Tick(timedelta(ExpiryDays) + 1)
  \/ /\ nreq < MaxLife
     /\ \E o \in {"TRX-a@x", "TRX-b@x"} : PaymentCallbackBegin("c1", "1", NoneVal, o)
  \/ \E b \in BrevoOutcomes : PaymentCallbackInsert("c1", b)
  \/ /\ nreq < MaxLife
     /\ \E e \in Emails : generate_token_redirect(e)
  \/ /\ nreq < MaxLife
     /\ \E t \in TokenIds : watch(t)
  \/ /\ nreq < MaxLife
     /\ \E t \in TokenIds, i \in LifeHashes : verify_get(t, i)
  \/ /\ nreq < MaxLife
     /\ \E t \in TokenIds, xr \in XRealIps :
          verify_post_begin("v1", t, xr, NoneVal, "2.2", NoneVal, NoneVal, NoneVal)
  \/ verify_post_exists("v1")
  \/ verify_post_count("v1")
  \/ verify_post_insert("v1")
  \/ /\ nreq < MaxLife
     /\ \E t \in TokenIds, d \in LifeHashes : admin_kick(SECRET, t, d)
  \/ /\ nreq < MaxLife
     /\ \E t \in TokenIds, d \in LifeHashes : admin_add_device_begin("a1", SECRET, t, d)
  \/ admin_add_device_insert("a1")

SpecLife == InitLife /\ [][NextLife]_vars

\* purchases in parallel: two callbacks in flight, and the resume redirect
NextReissue ==
  \/ Tick(timedelta(ExpiryDays) + 1)
  \/ /\ nreq < MaxIssue
     /\ \E p \in CProcs, si \in StatusIdVals, o \in {"TRX-a@x", "TRX-b@x"} :
          PaymentCallbackBegin(p, "1", si, o)
  \/ \E p \in CProcs, b \in BrevoOutcomes : PaymentCallbackInsert(p, b)
  \/ /\ nreq < MaxIssue
     /\ \E e \in Emails : generate_token_redirect(e)

SpecReissue == Init /\ [][NextReissue]_vars

\* two clients, each registering once on the issued token, with every signal varied
NextFingerprint ==
  \/ \E p \in VProcs2, xr \in XRealIps, u \in UserAgents, ss \in ScreenSizes, tz \in Timezones :
       /\ vreq[p].pc = "idle"
       /\ verify_post_begin(p, "t1", xr, NoneVal, "2.2", u, ss, tz)
  \/ \E p \in VProcs2 : verify_post_exists(p)
  \/ \E p \in VProcs2 : verify_post_count(p)
  \/ \E p \in VProcs2 : verify_post_insert(p)

SpecFingerprint == InitAdmit /\ [][NextFingerprint]_vars

\* ------------------------------------------------------------------ claims
Expired(t) == After(get_now, parse_expiry(tokens[t].expires_at))

Accepted(r) == r.pc \in {"L324", "L339"}

\* C1: in every reachable state every token has at most 2 distinct device
\* fingerprints in the device ledger, under any interleaving of POST /verify
\* requests and admin requests.
C1_DeviceCeiling == \A t \in TokenIds : CountDevices(t) <= DeviceLimit

\* C2: when N parallel POST /verify requests with pairwise distinct fingerprints
\* against a fresh unexpired token have all finished, exactly min(N,2) of them
\* were accepted and every other one was rejected with the device-limit answer.
C2_ParallelAdmits ==
  (\A p \in VProcs : vreq[p].pc \in Returns) =>
     /\ Cardinality({ p \in VProcs : Accepted(vreq[p]) }) = DeviceLimit
     /\ \A p \in VProcs : ~Accepted(vreq[p]) => vreq[p].pc = "L330"
     /\ \A p \in VProcs : Accepted(vreq[p]) => IsAdmitted(vreq[p].token, vreq[p].device_hash)

\* the transition answers request `op` by its first statement
Answered(op) == nreq' = nreq + 1 /\ last'.seq = nreq' /\ last'.op = op

\* request p of POST /verify leaves statement `pc`
Leaves(p, pc) == vreq[p].pc = pc /\ vreq'[p].pc # pc

\* C3: a token whose expiry is in the past is rejected by the recheck (GET) and
\* by register-or-verify (POST), whatever the device ledger holds.
C3_ExpiredRejected ==
  [][ /\ (Answered("recheck") /\ last'.token \in DOMAIN tokens /\ Expired(last'.token))
           => Code(last'.ret) # 200
      /\ (Answered("register") /\ last'.token \in DOMAIN tokens /\ Expired(last'.token))
           => Code(last'.ret) # 200
      /\ \A p \in VProcs : (Free(vreq[p]) /\ vreq'[p].pc = "exists") => ~Expired(vreq'[p].token) ]_vars

\* no (token, device_hash) pair has two rows
UniqueRows ==
  \A r \in BagToSet(device_access) :
     /\ device_access[r] = 1
     /\ \A q \in BagToSet(device_access) :
          (q.token = r.token /\ q.device_hash = r.device_hash) => q = r

\* C4: a POST /verify whose fingerprint is already recorded for its unexpired
\* token answers ok with that identity and leaves the ledger as it is, also at
\* 2 devices; concurrent first registrations of one fingerprint leave one row.
C4_Idempotent ==
  [][ /\ \A p \in VProcs :
           (Leaves(p, "exists") /\ IsAdmitted(vreq[p].token, vreq[p].device_hash))
              => /\ vreq'[p].pc = "L324"
                 /\ Identity(vreq'[p]) = vreq[p].device_hash
                 /\ device_access' = device_access
      /\ \A p \in VProcs :
           (Leaves(p, "insert") /\ IsAdmitted(vreq[p].token, vreq[p].device_hash))
              => /\ Code(vreq'[p].pc) = 200
                 /\ Identity(vreq'[p]) = vreq[p].device_hash
                 /\ device_access' = device_access
      /\ UniqueRows' ]_vars

C4_Witness ==
  \E p \in VProcs :
     /\ vreq[p].pc = "L324"
     /\ IsAdmitted(vreq[p].token, vreq[p].device_hash)
     /\ CountDevices(vreq[p].token) = DeviceLimit

\* C5: when a POST /verify answers ok with identity I the pair (T, I) is in the
\* ledger and stays there until an admin kick removes it; a recheck answers ok
\* exactly when its token exists and its identity is recorded for that token.
C5_Recheck ==
  [][ /\ \A p \in VProcs :
           (~Accepted(vreq[p]) /\ Accepted(vreq'[p]))
              => AdmittedIn(device_access', vreq'[p].token, Identity(vreq'[p]))
      /\ \A r \in BagToSet(device_access) :
           r \notin BagToSet(device_access')
              => /\ Answered("kick")
                 /\ last'.ret = "L362"
                 /\ last'.token = r.token
                 /\ last'.id = r.device_hash
      /\ Answered("recheck")
           => /\ (Code(last'.ret) = 200) <=>
                   (last'.token \in DOMAIN tokens /\ IsAdmitted(last'.token, last'.id))
              /\ Code(last'.ret) \in {200, 400, 403} ]_vars

C5_Witness ==
  /\ last.op = "recheck"
  /\ last.ret = "L298"
  /\ \E p \in VProcs :
       /\ vreq[p].pc = "L339"
       /\ vreq[p].token = last.token
       /\ Identity(vreq[p]) = last.id

\* request p of /payment-callback runs its transaction
Inserts(p) == creq[p].pc = "insert" /\ creq'[p].pc # "insert"

\* C6: every callback with status "1" and order_id "TRX-<email>", email not
\* empty, adds exactly one new token owned by the email and expiring 7 days
\* after issuance, points the email index at it, changes no other token or
\* index entry, and answers 200.
C6_IssuesOneToken ==
  [][ \A p \in CProcs : Inserts(p) =>
        LET r == creq[p] IN
        /\ r.token \notin DOMAIN tokens
        /\ DOMAIN tokens' = DOMAIN tokens \cup {r.token}
        /\ \A t \in DOMAIN tokens : tokens'[t] = tokens[t]
        /\ tokens'[r.token].email = r.email
        /\ parse_expiry(tokens'[r.token].expires_at).instant = r.issued + ExpiryDays * HoursPerDay
        /\ DOMAIN email_tokens' = DOMAIN email_tokens \cup {r.email}
        /\ email_tokens'[r.email] = r.token
        /\ \A e \in DOMAIN email_tokens : e # r.email => email_tokens'[e] = email_tokens[e]
        /\ Code(creq'[p].pc) = 200 ]_vars

\* the order_id is missing, lacks the prefix or carries no email
BadOrder(o) == o = NoneVal \/ ~StartsWithTRX(o) \/ Len(o) = 4

\* the callback is accepted: it goes on to mint a token
Accepts(p) == Free(creq[p]) /\ creq'[p].pc = "insert"

\* C7 as stated: a callback whose status field is not "1", or whose order_id is
\* missing, unprefixed or without email, is never accepted.
C7_StatusFieldRejected ==
  [][ \A p \in CProcs : Accepts(p) =>
        \A s \in StatusVals, si \in StatusIdVals, o \in OrderIds :
           (s # "1" \/ BadOrder(o)) => ~PaymentCallbackBegin(p, s, si, o) ]_vars

\* the status the gateway sent: `status`, or `status_id` when `status` is absent or empty
SentStatus(s, si) == IF s = NoneVal \/ s = "" THEN si ELSE s

\* C7 amended: a callback whose status (status, or status_id when status is
\* absent or empty) is not "1", or whose order_id is missing, unprefixed or
\* without email, is never accepted: it answers 400 in its first statement,
\* calls neither collaborator and leaves the three tables as they are.
C7_BadCallbackRejected ==
  [][ /\ \A p \in CProcs : Accepts(p) =>
           \A s \in StatusVals, si \in StatusIdVals, o \in OrderIds :
              (SentStatus(s, si) # "1" \/ BadOrder(o)) => ~PaymentCallbackBegin(p, s, si, o)
      /\ \A p \in CProcs : Accepts(p) => creq'[p].email \in Emails
      /\ Answered("callback") =>
           /\ Code(last'.ret) = 400
           /\ UNCHANGED <<tokens, email_tokens, device_access, creq>> ]_vars

C7_Witness ==
  /\ last.op = "callback"
  /\ last.ret = "L242"
  /\ tokens # << >>

\* C8: when the request to the video collaborator fails, issuance fails: no
\* token is created and the token store and email index stay as they are.
C8_NoTokenOnVideoFailure ==
  [][ \A p \in CProcs : (Inserts(p) /\ creq[p].mux = "api_error") =>
        /\ tokens' = tokens
        /\ email_tokens' = email_tokens
        /\ Code(creq'[p].pc) # 200 ]_vars

\* C9: an admin kick of a recorded fingerprint lowers the token's count by one
\* and ends the fingerprint's admission; a register-or-verify for an existing,
\* unexpired token that finds fewer than 2 devices is accepted and recorded.
C9_KickFreesSlot ==
  [][ /\ (Answered("kick") /\ last'.ret = "L362" /\ IsAdmitted(last'.token, last'.id))
           => /\ CountIn(device_access', last'.token) = CountDevices(last'.token) - 1
              /\ ~AdmittedIn(device_access', last'.token, last'.id)
              /\ \A r \in BagToSet(device_access) :
                   (r.token # last'.token \/ r.device_hash # last'.id) => r \in BagToSet(device_access')
      /\ Answered("register")
           => ~(last'.token \in DOMAIN tokens /\ ~Expired(last'.token))
      /\ \A p \in VProcs :
           (Leaves(p, "exists") /\ ~IsAdmitted(vreq[p].token, vreq[p].device_hash))
              => vreq'[p].pc = "count"
      /\ \A p \in VProcs :
           (Leaves(p, "count") /\ CountDevices(vreq[p].token) < DeviceLimit)
              => vreq'[p].pc = "insert"
      /\ \A p \in VProcs :
           Leaves(p, "insert")
              => /\ vreq'[p].pc = "L339"
                 /\ AdmittedIn(device_access', vreq[p].token, vreq[p].device_hash) ]_vars

C9_Witness ==
  /\ last.op = "kick"
  /\ last.ret = "L362"
  /\ ~IsAdmitted(last.token, last.id)
  /\ CountDevices(last.token) = DeviceLimit
  /\ \A p \in VProcs2 :
       /\ vreq[p].pc = "L339"
       /\ vreq[p].token = last.token
       /\ vreq[p].device_hash # last.id
  /\ vreq["v1"].device_hash # vreq["v2"].device_hash

\* C10: an admin request whose credential is absent or differs from the secret,
\* and every admin request when no secret is configured, is answered 403 before
\* the ledger is read or written: only a request carrying the configured,
\* non-empty secret gets past the guard, and a refused one changes no row.
C10_AdminFailsClosed ==
  [][ /\ \A op \in {"logs", "kick", "add"} :
           Answered(op) =>
              /\ env.ADMIN_TOKEN = "" => Code(last'.ret) = 403
              /\ Code(last'.ret) = 403 => device_access' = device_access
      /\ (Answered("kick") /\ Code(last'.ret) # 403)
           => \A h \in AdminHeaders : h # env.ADMIN_TOKEN => ~admin_kick(h, last'.token, last'.id)
      /\ (Answered("add") /\ Code(last'.ret) # 403)
           => \A h \in AdminHeaders, p \in AProcs :
                 h # env.ADMIN_TOKEN => ~admin_add_device_begin(p, h, last'.token, last'.id)
      /\ (Answered("logs") /\ Code(last'.ret) # 403)
           => \A h \in AdminHeaders : h # env.ADMIN_TOKEN => ~admin_logs(h)
      /\ \A p \in AProcs :
           (Free(areq[p]) /\ areq'[p].pc = "insert")
              => /\ env.ADMIN_TOKEN # ""
                 /\ \A h \in AdminHeaders :
                      h # env.ADMIN_TOKEN => ~admin_add_device_begin(p, h, areq'[p].token, areq'[p].device)
      /\ \A p \in AProcs : areq[p].pc = "insert" => env.ADMIN_TOKEN # "" ]_vars

C10_Witness ==
  /\ env.ADMIN_TOKEN = ""
  /\ last.op = "kick"
  /\ last.ret = "L111"
  /\ IsAdmitted(last.token, last.id)

\* request p of /admin/add-device passes the guard, the parameters and the count
Adds(p) == Free(areq[p]) /\ areq'[p].pc = "insert"

\* C11: an authorised add-device for a token with 2 distinct fingerprints is
\* rejected and leaves the ledger unchanged; one for a token with fewer records
\* the fingerprint, and the token's count does not exceed 2 afterwards.
C11_AddRespectsCeiling ==
  [][ /\ (Answered("add") /\ last'.token # "" /\ last'.id # "" /\ CountDevices(last'.token) >= DeviceLimit)
           => (Code(last'.ret) = 403 /\ device_access' = device_access)
      /\ \A p \in AProcs : Adds(p) => CountDevices(areq'[p].token) < DeviceLimit
      /\ \A p \in AProcs :
           (areq[p].pc = "insert" /\ areq'[p].pc # "insert")
              => /\ AdmittedIn(device_access', areq[p].token, areq[p].device)
                 /\ CountIn(device_access', areq[p].token) <= DeviceLimit ]_vars

\* C16: POST /verify decides in a fixed order with one rejection per cause:
\* unknown token -> invalid token (line 317); else now > expiry -> expired
\* (line 319), whatever the ledger holds; else a recorded fingerprint -> ok;
\* else a count of 2 -> device limit (line 330); else the device is recorded.
\* At now = expiry the token is not expired.
C16_DecisionOrder ==
  [][ /\ Answered("register") =>
           /\ last'.token = "" => last'.ret = "L285"
           /\ (last'.token # "" /\ last'.token \notin DOMAIN tokens) => last'.ret = "L317"
           /\ last'.token \in DOMAIN tokens
                => /\ last'.ret = "L319"
                   /\ get_now.instant > parse_expiry(tokens[last'.token].expires_at).instant
      /\ \A p \in VProcs :
           (Free(vreq[p]) /\ vreq'[p].pc = "exists")
              => /\ vreq'[p].token \in DOMAIN tokens
                 /\ get_now.instant <= parse_expiry(tokens[vreq'[p].token].expires_at).instant
      /\ \A p \in VProcs :
           Leaves(p, "exists") =>
              vreq'[p].pc = IF IsAdmitted(vreq[p].token, vreq[p].device_hash) THEN "L324" ELSE "count"
      /\ \A p \in VProcs :
           Leaves(p, "count") =>
              vreq'[p].pc = IF CountDevices(vreq[p].token) >= DeviceLimit THEN "L330" ELSE "insert"
      /\ \A p \in VProcs : Leaves(p, "insert") => vreq'[p].pc = "L339" ]_vars

C16_Witness ==
  /\ last.op = "register"
  /\ last.ret = "L319"
  /\ IsAdmitted(last.token, last.id)
  /\ CountDevices(last.token) = DeviceLimit

\* C18: every row of the device ledger carries the id of a token in the token store.
C18_LedgerTokensExist ==
  \A r \in BagToSet(device_access) : r.token \in DOMAIN tokens

\* C14: when the notification collaborator fails during issuance, the token of
\* that callback and its email-index entry are persisted and the callback still
\* answers 200.
C14_NotificationBestEffort ==
  [][ \A p \in CProcs :
        (Inserts(p) /\ creq[p].token \notin DOMAIN tokens /\ creq'[p].mail \in {"api_error", "error"})
           => /\ creq[p].token \in DOMAIN tokens'
              /\ tokens'[creq[p].token].email = creq[p].email
              /\ email_tokens'[creq[p].email] = creq[p].token
              /\ Code(creq'[p].pc) = 200 ]_vars

\* request p of /payment-callback commits its transaction
Commits(p) == Inserts(p) /\ creq'[p].pc # "L250"

\* C12: token ids are unique and token rows immutable: every existing row stays
\* as it is under every operation, the only change of the token store is the
\* row a committing callback adds under an id that was free, and a callback
\* whose id is taken changes nothing.
C12_TokensImmutable ==
  [][ /\ \A t \in DOMAIN tokens : t \in DOMAIN tokens' /\ tokens'[t] = tokens[t]
      /\ tokens' # tokens
           => \E p \in CProcs :
                 /\ Commits(p)
                 /\ creq[p].token \notin DOMAIN tokens
                 /\ DOMAIN tokens' = DOMAIN tokens \cup {creq[p].token}
      /\ \A p \in CProcs :
           (Inserts(p) /\ creq[p].token \in DOMAIN tokens)
              => (tokens' = tokens /\ email_tokens' = email_tokens /\ creq'[p].pc = "L250") ]_vars

C12_Witness ==
  /\ creq["c1"].pc = "L250"
  /\ creq["c1"].token \in DOMAIN tokens
  /\ tokens[creq["c1"].token].email # creq["c1"].email
  /\ device_access # EmptyBag

\* C13: a committing callback points the email index of its email at its token
\* and nothing else changes the index, so resume redirects to the most recently
\* issued token; the older tokens stay in the store and are served by watch and
\* taken on by POST /verify while they are not expired.
C13_IndexFollowsLatest ==
  [][ /\ \A p \in CProcs : Commits(p) => email_tokens'[creq[p].email] = creq[p].token
      /\ email_tokens' # email_tokens
           => \E p \in CProcs :
                 /\ Commits(p)
                 /\ \A e \in DOMAIN email_tokens : e # creq[p].email => email_tokens'[e] = email_tokens[e]
      /\ (Answered("resume") /\ last'.id \in DOMAIN email_tokens)
           => (last'.ret = "L229" /\ last'.token = email_tokens[last'.id])
      /\ \A t \in DOMAIN tokens : t \in DOMAIN tokens' /\ tokens'[t] = tokens[t]
      /\ (Answered("watch") /\ last'.token \in DOMAIN tokens /\ ~Expired(last'.token))
           => last'.ret = "L276"
      /\ Answered("register")
           => ~(last'.token \in DOMAIN tokens /\ ~Expired(last'.token)) ]_vars

C13_Witness ==
  /\ "a@x" \in DOMAIN email_tokens
  /\ email_tokens["a@x"] = "t2"
  /\ "t1" \in DOMAIN tokens
  /\ tokens["t1"].email = "a@x"
  /\ last.seq = nreq
  /\ last.op = "watch"
  /\ last.token = "t1"
  /\ last.ret = "L276"

\* C17: a ledger row stays as it is until an authorised kick of its token and
\* fingerprint removes it: no other operation and no passage of time removes
\* or alters it.
C17_EntriesPersist ==
  [][ \A r \in BagToSet(device_access) :
        CopiesIn(r, device_access') # CopiesIn(r, device_access)
           => /\ Answered("kick")
              /\ last'.ret = "L362"
              /\ last'.token = r.token
              /\ last'.id = r.device_hash ]_vars

C17_Witness ==
  /\ last.seq = nreq
  /\ last.op = "recheck"
  /\ last.ret = "L298"
  /\ Expired(last.token)
  /\ creq["c1"].pc = "L260"

\* the row POST /verify request r inserts
RowOf(r) ==
  [token |-> r.token, device_hash |-> r.device_hash, ip |-> r.ip, user_agent |-> r.user_agent,
   screen_size |-> r.screen_size, timezone |-> r.timezone, timestamp |-> r.now]

C19_IndexConsistent ==
  \A e \in DOMAIN email_tokens :
     /\ email_tokens[e] \in DOMAIN tokens
     /\ tokens[email_tokens[e]].email = e

C19_Witness ==
  /\ creq["c1"].pc = "insert"
  /\ creq["c2"].pc \in {"L258", "L260"}
  /\ creq["c1"].email = creq["c2"].email
  /\ creq["c1"].token # creq["c2"].token
  /\ email_tokens[creq["c2"].email] = creq["c2"].token

\* the four signals of a request in flight or of a ledger row, and its identity
Signals(x) == <<x.ip, x.user_agent, x.screen_size, x.timezone>>

Observed ==
  { [signals |-> Signals(vreq[p]), identity |-> vreq[p].device_hash] :
      p \in { q \in VProcs : vreq[q].pc \in {"exists", "count", "insert"} } }
  \cup { [signals |-> Signals(r), identity |-> r.device_hash] : r \in BagToSet(device_access) }

Differences(a, b) == Cardinality({ i \in 1..4 : a.signals[i] # b.signals[i] })

\* C15: requests with the same source address, user agent, screen size and
\* time zone get the same identity, and requests that differ in exactly one of
\* the four get different identities.
C15_FingerprintSensitive ==
  \A a \in Observed, b \in Observed :
     /\ Differences(a, b) = 0 => a.identity = b.identity
     /\ Differences(a, b) = 1 => a.identity # b.identity

C15_Witness ==
  /\ CountDevices("t1") = DeviceLimit
  /\ \E a \in BagToSet(device_access), b \in BagToSet(device_access) :
        /\ a.ip = b.ip /\ a.user_agent = b.user_agent /\ a.screen_size = b.screen_size
        /\ a.timezone # b.timezone
        /\ a.device_hash # b.device_hash

====
